---------------------------- MODULE Spec2Model ----------------------------
(***************************************************************************)
(* The vSphere driver of docker-machine (drivers/vmwarevsphere/vsphere.go) *)
(* as a state machine: one Driver instance, the vSphere backend it talks   *)
(* to, and the driver's lifecycle operations.                              *)
(*                                                                         *)
(* Every backend call of an operation can fail.  An operation's `f` input  *)
(* names the first call that fails, as a path of call names (<<>>: none    *)
(* fails; <<"GetIP", "GetState", "login">>: the login made by the GetState *)
(* that GetIP makes).  Restart is modelled step by step, because the guest *)
(* shuts down asynchronously between its polls; the other operations make  *)
(* no wait of their own and are one action each.                           *)
(*                                                                         *)
(* Beside the driver: PreCreateCheck and the configuration fields it       *)
(* writes (PreSpec), the provisioners and the Provision pipeline, step by  *)
(* step (ProvSpec), the lifecycle dispatcher the commands call (DispSpec), *)
(* two Driver instances operated in turn (TwoSpec), and the sessions the   *)
(* operations open and close at the backend.                               *)
(***************************************************************************)
EXTENDS Integers, Sequences, FiniteSets, TLC

VARIABLES
    vs,         \* the backend: VM object, boot ISO, power state, guest network
    IPAddress,  \* the driver's cached address (BaseDriver.IPAddress)
    pc,         \* "idle", or where a running Restart is, or "hung"
    i,          \* Restart's loop counter
    slept,      \* whether the latest loop iteration of Restart slept
    rs,         \* what the running (or last) Restart has done so far
    deadline,   \* the caller's overall deadline expired during the operation
    last,       \* the last completed operation and what it returned
    cfg,        \* the driver's configuration fields PreCreateCheck reads and writes
    prov,       \* a provisioner and the Provision run on it
    disp,       \* a run of the lifecycle dispatcher
    other,      \* a second Driver instance, for another host, and its VM
    sessions    \* the sessions open at the backend that the drivers logged in

vars == <<vs, IPAddress, pc, i, slept, rs, deadline, last, cfg, prov, disp, other,
          sessions>>

\* What the lifecycle operations of the driver leave alone.
outside == <<cfg, prov, disp, other>>

----------------------------------------------------------------------------
(* Bounds of the model *)

\* A driver is configured with at most this many networks.
MaxNetworks == 2

\* A provisioner is asked to provision at most this many times.
MaxRuns == 2

\* A command names at most this many hosts.
MaxHosts == 2

\* A guest booted in the lifecycle specification reports at most this many
\* addresses, over all its interfaces.
MaxBootAddrs == 1

\* The guests address selection is examined on (IPSpec) report at most this
\* many addresses, over all their interfaces.
MaxAddrs == 2

(* Constants of the program *)

\* Restart polls 60 times: for i := 1; i <= 60; i++
PollBudget == 60

\* The docker engine port GetURL appends.
EnginePort == 2376

----------------------------------------------------------------------------
(* Addresses.  net.ParseIP gives an address family and its bytes; the      *)
(* predicates below are Go's net.IP methods on that value.                 *)

IPv4(a, b, c, d) == [fam |-> 4, o |-> <<a, b, c, d>>]

\* An IPv6 address by its first and its last 16-bit group.
IPv6(hi, lo) == [fam |-> 6, o |-> <<hi, lo>>]

\* Go's "" for an address.
NoIP == [fam |-> 0, o |-> <<>>]

dockerBridgeIP == IPv4(172, 17, 0, 1)

\* What a guest may report: a routable IPv4 address, the docker0 bridge, an
\* IPv4 link-local address and an IPv6 link-local address (fe80::1).
Addrs == {IPv4(10, 0, 0, 5), dockerBridgeIP, IPv4(169, 254, 7, 7), IPv6(65152, 1)}

To4(ip) == ip.fam = 4

IsUnspecified(ip) ==
    \/ ip.fam = 4 /\ ip.o = <<0, 0, 0, 0>>
    \/ ip.fam = 6 /\ ip.o = <<0, 0>>

IsLoopback(ip) ==
    \/ ip.fam = 4 /\ ip.o[1] = 127
    \/ ip.fam = 6 /\ ip.o = <<0, 1>>

IsMulticast(ip) ==
    \/ ip.fam = 4 /\ ip.o[1] \div 16 = 14
    \/ ip.fam = 6 /\ ip.o[1] \div 256 = 255

IsLinkLocalUnicast(ip) ==
    \/ ip.fam = 4 /\ ip.o[1] = 169 /\ ip.o[2] = 254
    \/ ip.fam = 6 /\ ip.o[1] \div 64 = 1018

IsGlobalUnicast(ip) ==
    /\ ip.fam \in {4, 6}
    /\ ip # IPv4(255, 255, 255, 255)
    /\ ~IsUnspecified(ip)
    /\ ~IsLoopback(ip)
    /\ ~IsMulticast(ip)
    /\ ~IsLinkLocalUnicast(ip)

\* The test of GetIP's inner loop.
Qualifies(ip) == To4(ip) /\ IsGlobalUnicast(ip) /\ ip # dockerBridgeIP

----------------------------------------------------------------------------
(* The guest's network: what vm.WaitForNetIP returns, a map from the MAC   *)
(* address of each interface to the addresses configured on it.            *)

Macs == {"00:50:56:00:00:01", "00:50:56:00:00:02"}

EmptyNet == [m \in {} |-> <<>>]

\* The address lists of one interface: not empty, no address twice.
IPLists ==
    {s \in UNION {[1..n -> Addrs] : n \in 1..MaxAddrs} :
        \A j, k \in 1..Len(s) : j # k => s[j] # s[k]}

RECURSIVE TotalLen(_, _)
TotalLen(net, S) ==
    IF S = {} THEN 0
    ELSE LET m == CHOOSE x \in S : TRUE
         IN Len(net[m]) + TotalLen(net, S \ {m})

NetConfigs ==
    {net \in UNION {[S -> IPLists] : S \in SUBSET Macs} :
        TotalLen(net, DOMAIN net) <= MaxAddrs}

BootConfigs == {net \in NetConfigs : TotalLen(net, DOMAIN net) <= MaxBootAddrs}

\* The interfaces Go's enumeration of the map can yield first.
Firsts(net) == IF DOMAIN net = {} THEN {CHOOSE m \in Macs : TRUE} ELSE DOMAIN net

----------------------------------------------------------------------------
(* States, errors and results *)

Running == "Running"
Stopped == "Stopped"
None == "None"

Nil == "nil"
ErrNotFound == "vm not found"
ErrBackend == "backend error"
ErrInvalidPowerState == "invalid power state"
ErrHostIsNotRunning == "Host is not running"
ErrNoIP == "No IP despite waiting for one - check DHCP status"
ErrCantStop == "can't stop VM"
ErrDuplicateName == "duplicate name"
ErrLocal == "local error"

\* The fault path handed to a nested call.
Sub(f, name) == IF f # <<>> /\ Head(f) = name THEN Tail(f) ELSE <<>>

Under(name, F) == {<<name>> \o g : g \in F \ {<<>>}}

\* What an operation gives back: the backend and the cached address after
\* it, the error it returns, and the requests it sent that ask the backend
\* to change or to resolve something.
Ret(b, ip, err, calls) == [vs |-> b, IPAddress |-> ip, err |-> err, calls |-> calls]


----------------------------------------------------------------------------
(* The operations of the driver *)

GetStateFaults == {<<>>, <<"login">>, <<"fetchVM">>, <<"RetrieveOne">>}

\* GetState that takes whatever is not powered on for Stopped.
GetStateStoppedUnlessOn(b, f) ==
    IF f \in {<<"login">>, <<"fetchVM">>} THEN [st |-> None, err |-> ErrBackend]
    ELSE IF ~b.vm THEN [st |-> None, err |-> ErrNotFound]
    ELSE IF f = <<"RetrieveOne">> THEN [st |-> None, err |-> Nil]
    ELSE IF b.power = "poweredOn" THEN [st |-> Running, err |-> Nil]
    ELSE [st |-> Stopped, err |-> Nil]

\* GetState: log in, look the VM up, retrieve its properties, and map the
\* power state.  A failed RetrieveOne is answered (None, nil).
GetState(b, f) ==
    IF f = <<"login">> THEN [st |-> None, err |-> ErrBackend]
    ELSE IF f = <<"fetchVM">> THEN [st |-> None, err |-> ErrBackend]
    ELSE IF ~b.vm THEN [st |-> None, err |-> ErrNotFound]
    ELSE IF f = <<"RetrieveOne">> THEN [st |-> None, err |-> Nil]
    ELSE IF b.power = "poweredOn" THEN [st |-> Running, err |-> Nil]
    ELSE IF b.power = "poweredOff" THEN [st |-> Stopped, err |-> Nil]
    ELSE [st |-> None, err |-> Nil]

\* GetIP's choice within one interface: the first address that qualifies,
\* else the first address.
PreferredIP(ips) ==
    LET q == {k \in 1..Len(ips) : Qualifies(ips[k])}
    IN IF q = {} THEN ips[1]
       ELSE ips[CHOOSE k \in q : \A j \in q : k <= j]

\* The loop over the map WaitForNetIP returned.  Go enumerates a map in an
\* order of its own; `first` is the interface it yields first, and the loop
\* returns on that one (len(ips) >= 0 is true of any list).
SelectIP(net, first) ==
    LET m == IF first \in DOMAIN net THEN first ELSE CHOOSE x \in DOMAIN net : TRUE
    IN PreferredIP(net[m])

GetIPFaults ==
    {<<>>, <<"login">>, <<"fetchVM">>, <<"WaitForNetIP">>}
        \cup Under("GetState", GetStateFaults)

\* GetIP that turns away a Stopped machine only.
GetIPRejectsStoppedOnly(b, f, first) ==
    LET gs == GetState(b, Sub(f, "GetState"))
    IN IF gs.st = Stopped
       THEN [ip |-> NoIP, err |-> ErrHostIsNotRunning, calls |-> <<>>]
       ELSE IF f \in {<<"login">>, <<"fetchVM">>} \/ ~b.vm
       THEN [ip |-> NoIP, err |-> ErrBackend, calls |-> <<>>]
       ELSE IF f = <<"WaitForNetIP">>
       THEN [ip |-> NoIP, err |-> ErrBackend, calls |-> <<"WaitForNetIP">>]
       ELSE IF DOMAIN b.net = {}
       THEN [ip |-> NoIP, err |-> ErrNoIP, calls |-> <<"WaitForNetIP">>]
       ELSE [ip |-> b.net[CHOOSE m \in DOMAIN b.net : TRUE][1], err |-> Nil,
             calls |-> <<"WaitForNetIP">>]

\* GetIP: [ip, err, calls].
GetIP(b, f, first) ==
    LET gs == GetState(b, Sub(f, "GetState"))
    IN IF gs.st # Running
       THEN [ip |-> NoIP, err |-> ErrHostIsNotRunning, calls |-> <<>>]
       ELSE IF f = <<"login">>
       THEN [ip |-> NoIP, err |-> ErrBackend, calls |-> <<>>]
       ELSE IF f = <<"fetchVM">>
       THEN [ip |-> NoIP, err |-> ErrBackend, calls |-> <<>>]
       ELSE IF f = <<"WaitForNetIP">>
       THEN [ip |-> NoIP, err |-> ErrBackend, calls |-> <<"WaitForNetIP">>]
       ELSE IF DOMAIN b.net = {}
       THEN [ip |-> NoIP, err |-> ErrNoIP, calls |-> <<"WaitForNetIP">>]
       ELSE [ip |-> SelectIP(b.net, first), err |-> Nil, calls |-> <<"WaitForNetIP">>]

\* GetURL: [url, err]; the url is the host and the port of tcp://host:port.
GetURL(b, f, first) ==
    LET r == GetIP(b, f, first)
    IN IF r.err # Nil THEN [url |-> <<>>, err |-> r.err]
       ELSE IF r.ip = NoIP THEN [url |-> <<>>, err |-> Nil]
       ELSE [url |-> <<r.ip, EnginePort>>, err |-> Nil]

\* Start that resolves and caches the address again for a Running machine.
StartResolvesAgain(b, ip, f, net, first) ==
    LET gs == GetState(b, Sub(f, "GetState"))
    IN IF gs.err # Nil THEN Ret(b, ip, gs.err, <<>>)
       ELSE IF gs.st = Running
       THEN LET r == GetIP(b, <<>>, first)
            IN Ret(b, r.ip, r.err, r.calls)
       ELSE IF gs.st = Stopped
       THEN IF f \in {<<"login">>, <<"fetchVM">>} THEN Ret(b, ip, ErrBackend, <<>>)
            ELSE IF f \in {<<"PowerOn">>, <<"WaitForResult">>}
            THEN Ret(b, ip, ErrBackend, <<"PowerOn">>)
            ELSE LET on == [b EXCEPT !.power = "poweredOn",
                                     !.net = IF b.devices THEN net ELSE EmptyNet]
                     r == GetIP(on, Sub(f, "GetIP"), first)
                 IN Ret(on, r.ip, r.err, <<"PowerOn">> \o r.calls)
       ELSE Ret(b, ip, Nil, <<>>)

StartFaults ==
    {<<>>, <<"login">>, <<"fetchVM">>, <<"PowerOn">>, <<"WaitForResult">>}
        \cup Under("GetState", GetStateFaults)
        \cup Under("GetIP", GetIPFaults)

\* Start: nothing to do for Running; for Stopped power on, then resolve and
\* cache the address (the assignment is made whatever GetIP returns).  The
\* guest that boots brings up the network `net` on the devices it has.
Start(b, ip, f, net, first) ==
    LET gs == GetState(b, Sub(f, "GetState"))
    IN IF gs.err # Nil THEN Ret(b, ip, gs.err, <<>>)
       ELSE IF gs.st = Running THEN Ret(b, ip, Nil, <<>>)
       ELSE IF gs.st = Stopped
       THEN IF f = <<"login">> THEN Ret(b, ip, ErrBackend, <<>>)
            ELSE IF f = <<"fetchVM">> THEN Ret(b, ip, ErrBackend, <<>>)
            ELSE IF f \in {<<"PowerOn">>, <<"WaitForResult">>}
            THEN Ret(b, ip, ErrBackend, <<"PowerOn">>)
            ELSE LET on == [b EXCEPT !.power = "poweredOn",
                                     !.net = IF b.devices THEN net ELSE EmptyNet]
                     r == GetIP(on, Sub(f, "GetIP"), first)
                 IN Ret(on, r.ip, r.err, <<"PowerOn">> \o r.calls)
       ELSE Ret(b, ip, Nil, <<>>)

StopFaults == {<<>>, <<"login">>, <<"fetchVM">>, <<"ShutdownGuest">>}

\* Stop that clears the cached address before it asks the guest.
StopClearsFirst(b, ip, f) ==
    IF f = <<"login">> THEN Ret(b, ip, ErrBackend, <<>>)
    ELSE IF f = <<"fetchVM">> THEN Ret(b, ip, ErrBackend, <<>>)
    ELSE IF ~b.vm THEN Ret(b, ip, ErrNotFound, <<>>)
    ELSE IF f = <<"ShutdownGuest">> THEN Ret(b, NoIP, ErrBackend, <<"ShutdownGuest">>)
    ELSE IF b.power # "poweredOn"
    THEN Ret(b, NoIP, ErrInvalidPowerState, <<"ShutdownGuest">>)
    ELSE Ret([b EXCEPT !.shutdown = TRUE], NoIP, Nil, <<"ShutdownGuest">>)

\* Stop: ask the guest to shut down.  The backend refuses unless the VM is
\* powered on; the guest powers off later, on its own.
Stop(b, ip, f) ==
    IF f = <<"login">> THEN Ret(b, ip, ErrBackend, <<>>)
    ELSE IF f = <<"fetchVM">> THEN Ret(b, ip, ErrBackend, <<>>)
    ELSE IF ~b.vm THEN Ret(b, ip, ErrNotFound, <<>>)
    ELSE IF f = <<"ShutdownGuest">> THEN Ret(b, ip, ErrBackend, <<"ShutdownGuest">>)
    ELSE IF b.power # "poweredOn"
    THEN Ret(b, ip, ErrInvalidPowerState, <<"ShutdownGuest">>)
    ELSE Ret([b EXCEPT !.shutdown = TRUE], NoIP, Nil, <<"ShutdownGuest">>)

KillFaults == {<<>>, <<"login">>, <<"fetchVM">>, <<"PowerOff">>, <<"WaitForResult">>}

\* Kill: power off and wait for the task.
Kill(b, ip, f) ==
    IF f = <<"login">> THEN Ret(b, ip, ErrBackend, <<>>)
    ELSE IF f = <<"fetchVM">> THEN Ret(b, ip, ErrBackend, <<>>)
    ELSE IF ~b.vm THEN Ret(b, ip, ErrNotFound, <<>>)
    ELSE IF f \in {<<"PowerOff">>, <<"WaitForResult">>}
    THEN Ret(b, ip, ErrBackend, <<"PowerOff">>)
    ELSE IF b.power # "poweredOn"
    THEN Ret(b, ip, ErrInvalidPowerState, <<"PowerOff">>)
    ELSE Ret([b EXCEPT !.power = "poweredOff", !.shutdown = FALSE, !.net = EmptyNet],
             NoIP, Nil, <<"PowerOff">>)

RemoveAborts ==
    {<<>>, <<"login">>, <<"DatacenterOrDefault">>, <<"DatastoreOrDefault">>,
     <<"DeleteDatastoreFile">>, <<"fetchVM">>, <<"Destroy">>, <<"WaitForResult">>}
        \cup Under("GetState", GetStateFaults)
        \cup Under("Kill", KillFaults)

\* f.abort: the first failing call among those whose error Remove returns;
\* f.wait: the task deleting the boot ISO fails for another reason than the
\* file not being there (Remove goes on after it).
RemoveFaults == [abort : RemoveAborts, wait : BOOLEAN]

\* The second half of Remove: look the VM up and destroy it.  The backend
\* destroys no VM that is powered on.
RemoveVM(b, ip, f, calls) ==
    IF f.abort = <<"fetchVM">> THEN Ret(b, ip, ErrBackend, calls)
    ELSE IF ~b.vm THEN Ret(b, ip, ErrNotFound, calls)
    ELSE IF f.abort \in {<<"Destroy">>, <<"WaitForResult">>}
    THEN Ret(b, ip, ErrBackend, calls \o <<"Destroy">>)
    ELSE IF b.power = "poweredOn"
    THEN Ret(b, ip, ErrInvalidPowerState, calls \o <<"Destroy">>)
    ELSE Ret([b EXCEPT !.vm = FALSE, !.devices = FALSE, !.power = "poweredOff",
                       !.shutdown = FALSE, !.net = EmptyNet],
             ip, Nil, calls \o <<"Destroy">>)

\* The first half of Remove's own session: delete the boot ISO.  A task that
\* ends in file-not-found makes Remove return nil at once; any other error
\* of the task is dropped.
RemoveISO(b, ip, f, calls) ==
    IF f.abort = <<"login">> THEN Ret(b, ip, ErrBackend, calls)
    ELSE IF f.abort \in {<<"DatacenterOrDefault">>, <<"DatastoreOrDefault">>}
    THEN Ret(b, ip, ErrBackend, calls)
    ELSE IF f.abort = <<"DeleteDatastoreFile">>
    THEN Ret(b, ip, ErrBackend, calls \o <<"DeleteDatastoreFile">>)
    ELSE IF f.wait
    THEN RemoveVM(b, ip, f, calls \o <<"DeleteDatastoreFile">>)
    ELSE IF ~b.iso
    THEN Ret(b, ip, Nil, calls \o <<"DeleteDatastoreFile">>)
    ELSE RemoveVM([b EXCEPT !.iso = FALSE], ip, f, calls \o <<"DeleteDatastoreFile">>)

\* Remove: query the state, Kill a Running machine, delete the ISO, destroy
\* the VM.
Remove(b, ip, f) ==
    LET gs == GetState(b, Sub(f.abort, "GetState"))
    IN IF gs.err # Nil THEN Ret(b, ip, gs.err, <<>>)
       ELSE IF gs.st = Running
       THEN LET k == Kill(b, ip, Sub(f.abort, "Kill"))
            IN IF k.err # Nil THEN Ret(k.vs, k.IPAddress, ErrCantStop, k.calls)
               ELSE RemoveISO(k.vs, k.IPAddress, f, k.calls)
       ELSE RemoveISO(b, ip, f, <<>>)

CreateAborts ==
    {<<>>, <<"local">>, <<"login">>, <<"find">>, <<"CreateVM">>, <<"UploadFile">>,
     <<"Device">>, <<"Reconfigure">>, <<"guest">>}
        \cup Under("Start", StartFaults)

\* f.abort: the first failing call among those whose error Create returns;
\* f.addDevice: vm.AddDevice fails (its error is not looked at).
CreateFaults == [abort : CreateAborts, addDevice : BOOLEAN]

\* The rest of Create that returns after Start, handing nothing to the guest.
CreateConfigureWithoutGuestSteps(b, ip, f, net, first) ==
    IF f.abort = <<"Device">> THEN Ret(b, ip, ErrBackend, <<"CreateVM", "UploadFile">>)
    ELSE LET dev == [b EXCEPT !.devices = ~f.addDevice]
         IN IF f.abort = <<"Reconfigure">>
            THEN Ret(dev, ip, ErrBackend, <<"CreateVM", "UploadFile", "AddDevice">>)
            ELSE LET s == Start(dev, ip, Sub(f.abort, "Start"), net, first)
                 IN Ret(s.vs, s.IPAddress, s.err,
                        <<"CreateVM", "UploadFile", "AddDevice">> \o s.calls)

\* Create from the point where the VM object and the ISO exist: attach the
\* devices, reconfigure, Start, and hand the keys to the guest.  The backend
\* transfers a file to the guest of a powered-on VM only.
CreateConfigure(b, ip, f, net, first) ==
    IF f.abort = <<"Device">> THEN Ret(b, ip, ErrBackend, <<"CreateVM", "UploadFile">>)
    ELSE LET dev == [b EXCEPT !.devices = ~f.addDevice]
         IN IF f.abort = <<"Reconfigure">>
            THEN Ret(dev, ip, ErrBackend, <<"CreateVM", "UploadFile", "AddDevice">>)
            ELSE LET s == Start(dev, ip, Sub(f.abort, "Start"), net, first)
                     calls == <<"CreateVM", "UploadFile", "AddDevice">> \o s.calls
                 IN IF s.err # Nil THEN Ret(s.vs, s.IPAddress, s.err, calls)
                    ELSE IF f.abort = <<"guest">>
                    THEN Ret(s.vs, s.IPAddress, ErrBackend, calls)
                    ELSE IF s.vs.power # "poweredOn"
                    THEN Ret(s.vs, s.IPAddress, ErrInvalidPowerState, calls)
                    ELSE Ret(s.vs, s.IPAddress, Nil, calls)

\* Create: local preparation, login and lookups, CreateVM, upload of the
\* boot ISO, then the rest.
Create(b, ip, f, net, first) ==
    IF f.abort = <<"local">> THEN Ret(b, ip, ErrLocal, <<>>)
    ELSE IF f.abort = <<"login">> THEN Ret(b, ip, ErrBackend, <<>>)
    ELSE IF f.abort = <<"find">> THEN Ret(b, ip, ErrBackend, <<>>)
    ELSE IF f.abort = <<"CreateVM">> THEN Ret(b, ip, ErrBackend, <<"CreateVM">>)
    ELSE IF b.vm THEN Ret(b, ip, ErrDuplicateName, <<"CreateVM">>)
    ELSE LET made == [b EXCEPT !.vm = TRUE, !.power = "poweredOff"]
         IN IF f.abort = <<"UploadFile">>
            THEN Ret(made, ip, ErrBackend, <<"CreateVM", "UploadFile">>)
            ELSE CreateConfigure([made EXCEPT !.iso = TRUE], ip, f, net, first)

----------------------------------------------------------------------------
(* PreCreateCheck *)

DefaultNetwork == "VM Network"

NetNames == {DefaultNetwork, "dmz"}

\* The fields of the driver PreCreateCheck reads or writes: Folder,
\* HostSystem and Pool are "" or a name.
Configs ==
    [Networks : UNION {[1..n -> NetNames] : n \in 0..MaxNetworks},
     Network : {""} \cup NetNames,
     Folder : {"", "machines"},
     HostSystem : {"", "esx1"},
     Pool : {"", "pool1"}]

PreCreateCalls ==
    {"login", "DatacenterOrDefault", "Folders", "Folder", "DatastoreOrDefault",
     "HostSystemOrDefault", "ResourcePool"}

\* What the backend answers to one PreCreateCheck: the lookup that fails (""
\* for none; "ResourcePool" is the one pool lookup the check makes) and the
\* networks it finds.
PreCreateInputs == [fail : {""} \cup PreCreateCalls, networks : SUBSET NetNames]

\* PreCreateCheck: log in and look up the datacenter, the folder (when one
\* is named), the datastore, every network, the host system (when one is
\* named) and the resource pool.  With no network configured "VM Network"
\* is appended before the networks are looked up; Network is set to the
\* first network once all of them are found.  [cfg, err].
PreCreateCheck(c, in) ==
    IF in.fail \in {"login", "DatacenterOrDefault"} THEN [cfg |-> c, err |-> ErrBackend]
    ELSE IF c.Folder # "" /\ in.fail \in {"Folders", "Folder"}
    THEN [cfg |-> c, err |-> ErrBackend]
    ELSE IF in.fail = "DatastoreOrDefault" THEN [cfg |-> c, err |-> ErrBackend]
    ELSE LET named == [c EXCEPT !.Networks = IF Len(@) = 0 THEN <<DefaultNetwork>> ELSE @]
         IN IF \E k \in 1..Len(named.Networks) : named.Networks[k] \notin in.networks
            THEN [cfg |-> named, err |-> ErrBackend]
            ELSE LET set == [named EXCEPT !.Network = named.Networks[1]]
                 IN IF set.HostSystem # "" /\ in.fail = "HostSystemOrDefault"
                    THEN [cfg |-> set, err |-> ErrBackend]
                    ELSE IF in.fail = "ResourcePool"
                    THEN [cfg |-> set, err |-> ErrBackend]
                    ELSE [cfg |-> set, err |-> Nil]

----------------------------------------------------------------------------
(* Sessions.  vsphereLogin opens a session at the backend; the operations   *)
(* say `defer c.Logout(ctx)` right after a login that succeeded, after the  *)
(* `defer cancel()` of the context, so that at the return the Logout runs   *)
(* first, under a context not yet cancelled.  What follows gives, for each  *)
(* operation and each way it can go, the logins and Logouts it makes, in    *)
(* order, those of the operations it calls included.  A Logout ends the     *)
(* session it is sent for.                                                   *)

\* One session: the login, what the operation does while the session is
\* open, and the deferred Logout, which runs at the return whatever the
\* operation returns.
Session(inside) == <<"login">> \o inside \o <<"Logout">>

\* The sessions at most open at one time: Create's own, that of the Start
\* it calls, and that of the GetIP, or of GetIP's GetState, under Start.
MostOpen == 3

GetStateSessions(f) == IF f = <<"login">> THEN <<>> ELSE Session(<<>>)

\* GetIP: the GetState it calls first has returned before GetIP logs in.
GetIPSessions(b, f) ==
    LET q == Sub(f, "GetState")
    IN GetStateSessions(q) \o
          (IF GetState(b, q).st # Running \/ f = <<"login">> THEN <<>> ELSE Session(<<>>))

\* Start: GetState, then, for a Stopped machine, its own session, in which
\* it calls GetIP once the machine is powered on.
StartSessions(b, f) ==
    LET q == Sub(f, "GetState")
        gs == GetState(b, q)
    IN GetStateSessions(q) \o
          (IF gs.err # Nil \/ gs.st # Stopped \/ f = <<"login">> THEN <<>>
           ELSE IF f \in {<<"fetchVM">>, <<"PowerOn">>, <<"WaitForResult">>}
           THEN Session(<<>>)
           ELSE Session(GetIPSessions([b EXCEPT !.power = "poweredOn"], Sub(f, "GetIP"))))

StopSessions(f) == IF f = <<"login">> THEN <<>> ELSE Session(<<>>)

KillSessions(f) == IF f = <<"login">> THEN <<>> ELSE Session(<<>>)

\* Remove's own session with a Logout as the last statement of Remove in
\* place of the deferred one: the returns before the end leave without it.
RemoveOwnSessionLogoutAtEnd(b, f) ==
    IF f.abort = <<"login">> THEN <<>>
    ELSE IF f.abort \in {<<"DatacenterOrDefault">>, <<"DatastoreOrDefault">>,
                         <<"DeleteDatastoreFile">>, <<"fetchVM">>, <<"Destroy">>,
                         <<"WaitForResult">>}
            \/ (~f.wait /\ ~b.iso) \/ ~b.vm
    THEN <<"login">>
    ELSE Session(<<>>)

\* Remove's own session, opened after GetState and Kill have returned.
RemoveOwnSession(b, f) == IF f.abort = <<"login">> THEN <<>> ELSE Session(<<>>)

RemoveSessions(b, ip, f) ==
    LET q == Sub(f.abort, "GetState")
        gs == GetState(b, q)
        k == Kill(b, ip, Sub(f.abort, "Kill"))
    IN GetStateSessions(q) \o
          (IF gs.err # Nil THEN <<>>
           ELSE IF gs.st = Running
           THEN KillSessions(Sub(f.abort, "Kill")) \o
                   (IF k.err # Nil THEN <<>> ELSE RemoveOwnSession(k.vs, f))
           ELSE RemoveOwnSession(b, f))

\* Create: no login before the local preparation is done; its session stays
\* open while it calls Start.
CreateSessions(b, f) ==
    IF f.abort \in {<<"local">>, <<"login">>} THEN <<>>
    ELSE IF f.abort \in {<<"find">>, <<"CreateVM">>, <<"UploadFile">>, <<"Device">>,
                         <<"Reconfigure">>} \/ b.vm
    THEN Session(<<>>)
    ELSE Session(StartSessions([b EXCEPT !.vm = TRUE, !.iso = TRUE, !.power = "poweredOff",
                                         !.devices = ~f.addDevice],
                               Sub(f.abort, "Start")))

PreCreateCheckSessions(in) == IF in.fail = "login" THEN <<>> ELSE Session(<<>>)

\* The sessions a sequence of logins and Logouts leaves open.
Open(t) ==
    Cardinality({k \in 1..Len(t) : t[k] = "login"})
        - Cardinality({k \in 1..Len(t) : t[k] = "Logout"})

\* The backend's sessions after an operation that made the logins and
\* Logouts t.
Logged(t) == sessions' = sessions + Open(t)

----------------------------------------------------------------------------
(* Provisioners *)

MachineNames == {"alpha", "beta"}

\* The provisioners: the Container Optimized OS one, the RedHat and the Arch
\* one, a systemd provisioner that is none of these, and a provisioner for a
\* target without systemd.
Kinds == {"cos", "redhat", "arch", "systemd", "generic"}

\* Whether the provisioner is built on the systemd provisioner.
OnSystemd(kind) == kind # "generic"

SwarmOptionsSet == [IsSwarm : BOOLEAN]
AuthOptionsSet == [remote : {FALSE}]
EngineOptionsSet == [StorageDriver : {"", "aufs"}]

\* The fields every provisioner has, with the values of a provisioner on
\* which Provision has not run: the fields of GenericProvisioner, the
\* parameters of the Provision under way (swarmOptions, engineOptions), how
\* far it is, and what it has done to the host.
NewProvisioner(kind, name, optionsDir, optionsFile, releaseID, packages) ==
    [kind |-> kind, MachineName |-> name, DockerOptionsDir |-> optionsDir,
     DaemonOptionsFile |-> optionsFile, OsReleaseID |-> releaseID,
     Packages |-> packages,
     SwarmOptions |-> [IsSwarm |-> FALSE], AuthOptions |-> [remote |-> FALSE],
     EngineOptions |-> [StorageDriver |-> ""],
     swarmOptions |-> [IsSwarm |-> FALSE], engineOptions |-> [StorageDriver |-> ""],
     pc |-> "new", runs |-> 0, started |-> <<>>, done |-> <<>>, err |-> Nil,
     hostname |-> "", written |-> <<>>]

NewCOSProvisioner(name) ==
    NewProvisioner("cos", name, "/etc/docker", "/etc/default/docker", "cos", <<"curl">>)

\* A provisioner of another kind, with the generic paths.
NewOtherProvisioner(kind, name) ==
    NewProvisioner(kind, name, "/etc/docker", "/etc/default/docker", kind, <<>>)

\* COS steps with the swarm configured before the certificates are set up.
COSStepsSwarmBeforeAuth ==
    <<"SetHostname", "makeDockerOptionsDir", "setRemoteAuthOptions", "configureSwarm",
      "ConfigureAuth", "iptables">>

\* The steps of COSProvisioner.Provision, in the order of its statements.
COSSteps ==
    <<"SetHostname", "makeDockerOptionsDir", "setRemoteAuthOptions", "ConfigureAuth",
      "configureSwarm", "iptables">>

\* The pipeline of a provisioner: the one of the setup pipeline for the
\* kinds other than COS, which has the same six steps.
Steps(kind) ==
    IF kind = "cos" THEN COSSteps
    ELSE <<"SetHostname", "makeDockerOptionsDir", "setRemoteAuthOptions", "ConfigureAuth",
           "configureSwarm", "iptables">>

\* setRemoteAuthOptions returns no error; every other step can fail.
Fallible(step) == step # "setRemoteAuthOptions"

StepError ==
    [SetHostname |-> "SetHostname failed",
     makeDockerOptionsDir |-> "makeDockerOptionsDir failed",
     setRemoteAuthOptions |-> Nil,
     ConfigureAuth |-> "ConfigureAuth failed",
     configureSwarm |-> "configureSwarm failed",
     iptables |-> "iptables failed"]

\* The flat form of the daemon options: one file, at DaemonOptionsFile, that
\* holds the flags.
GenericGenerateDockerOptions(p, dockerPort) ==
    <<[shape |-> "flat", path |-> p.DaemonOptionsFile, port |-> dockerPort]>>

\* The systemd form: an override fragment of the unit and the flag file it
\* refers to.
SystemdGenerateDockerOptions(p, dockerPort) ==
    <<[shape |-> "override", path |-> "/etc/systemd/system/docker.service.d/10-machine.conf",
       port |-> dockerPort],
      [shape |-> "flags", path |-> p.DaemonOptionsFile, port |-> dockerPort]>>

\* COS generation left to the systemd provisioner it is built on.
COSGenerateAsSystemd(p, dockerPort) == SystemdGenerateDockerOptions(p, dockerPort)

\* COSProvisioner.GenerateDockerOptions: "use /etc/default/docker, not a
\* systemd override".
COSGenerateDockerOptions(p, dockerPort) == GenericGenerateDockerOptions(p, dockerPort)

\* The method the provisioner's type selects.
GenerateDockerOptions(p, dockerPort) ==
    IF p.kind = "cos" THEN COSGenerateDockerOptions(p, dockerPort)
    ELSE IF OnSystemd(p.kind) THEN SystemdGenerateDockerOptions(p, dockerPort)
    ELSE GenericGenerateDockerOptions(p, dockerPort)

PackageNames == {"curl", "docker"}

\* pkgaction.PackageAction
PackageActions == {"install", "remove", "upgrade"}

\* Package that hands the action to a package manager on the host.
PackageByManager(p, name, action) ==
    [prov |-> p, err |-> Nil, cmds |-> <<<<"sudo", "pkg", action, name>>>>]

\* COSProvisioner.Package: return nil.  [prov, err, cmds]: the provisioner
\* after it, the error, and the remote commands issued.
COSPackage(p, name, action) == [prov |-> p, err |-> Nil, cmds |-> <<>>]

\* The default storage driver of the RedHat and the Arch provisioner.
DefaultStorageDriver == "overlay2"

\* Recording that falls back to devicemapper.
RecordedWithDevicemapper(kind, engineOptions) ==
    IF kind \in {"redhat", "arch"} /\ engineOptions.StorageDriver = ""
    THEN [engineOptions EXCEPT !.StorageDriver = "devicemapper"]
    ELSE engineOptions

\* The engine options a Provision records: the RedHat and the Arch
\* provisioner fill in their default storage driver when none is named.
RecordedEngineOptions(kind, engineOptions) ==
    IF kind \in {"redhat", "arch"} /\ engineOptions.StorageDriver = ""
    THEN [engineOptions EXCEPT !.StorageDriver = DefaultStorageDriver]
    ELSE engineOptions

\* What a step that succeeded has done to the provisioner and the host.
StepEffect(p, step) ==
    IF step = "SetHostname" THEN [p EXCEPT !.hostname = p.MachineName]
    ELSE IF step = "setRemoteAuthOptions" THEN [p EXCEPT !.AuthOptions.remote = TRUE]
    ELSE IF step = "ConfigureAuth"
    THEN [p EXCEPT !.written = Append(@, GenerateDockerOptions(p, EnginePort))]
    ELSE p

----------------------------------------------------------------------------
(* The state machine *)

\* What a Restart has done: the answer of its first poll, whether every poll
\* of the loop so far answered Running, whether some query of it answered an
\* error or a state that is neither Running nor Stopped, whether the loop
\* used up its budget, the answer of the query after the loop, and the
\* operations it invoked.
RsInit ==
    [firstPoll |-> "", allRunning |-> TRUE, odd |-> FALSE, exhausted |-> FALSE,
     post |-> "", calls |-> <<>>]

\* The record of a completed operation: its name, the error it returned,
\* the state its own GetState answered ("" when it makes none), the address
\* or url it returned, and the requests it sent.
Completed(op, err, st, ip, url, calls) ==
    [op |-> op, err |-> err, st |-> st, ip |-> ip, url |-> url, calls |-> calls]

NoOp == Completed("", Nil, "", NoIP, <<>>, <<>>)

\* The backend before the host is created.
NoVM ==
    [vm |-> FALSE, iso |-> FALSE, devices |-> FALSE, power |-> "poweredOff",
     shutdown |-> FALSE, net |-> EmptyNet]

\* A second Driver NewDriver has made, for the host "beta", with the part of
\* the backend that holds that host's VM and ISO: the fields of a driver
\* and what the backend keeps under the driver's MachineName.
OtherDriver ==
    [MachineName |-> "beta", vs |-> NoVM, IPAddress |-> NoIP, pc |-> "idle", i |-> 0,
     slept |-> FALSE, rs |-> RsInit, deadline |-> FALSE, last |-> NoOp]

\* The configuration of a driver NewDriver has made: no network named.
NewConfig == [Networks |-> <<>>, Network |-> "", Folder |-> "", HostSystem |-> "", Pool |-> ""]

\* No provisioner constructed, no dispatcher run.
NoProvisioner == [kind |-> "", pc |-> "none"]
NoDispatch == [pc |-> "none"]

Init ==
    /\ vs = [vm |-> FALSE, iso |-> FALSE, devices |-> FALSE, power |-> "poweredOff",
             shutdown |-> FALSE, net |-> EmptyNet]
    /\ IPAddress = NoIP
    /\ pc = "idle"
    /\ i = 0
    /\ slept = FALSE
    /\ rs = RsInit
    /\ deadline = FALSE
    /\ last = NoOp
    /\ cfg = NewConfig
    /\ prov = NoProvisioner
    /\ disp = NoDispatch
    /\ other = OtherDriver
    /\ sessions = 0

\* An operation that is one action returns to the caller.
Returns(r, rec) ==
    /\ vs' = r.vs
    /\ IPAddress' = r.IPAddress
    /\ last' = rec
    /\ pc' = "idle"
    /\ i' = 0
    /\ slept' = FALSE
    /\ rs' = RsInit
    /\ deadline' = FALSE
    /\ UNCHANGED outside

\* The networks a Start can bring up: a choice only where it can boot.
BootNets(b) == IF b.vm /\ b.power = "poweredOff" THEN BootConfigs ELSE {EmptyNet}

DoGetState(f) ==
    /\ pc = "idle"
    /\ LET r == GetState(vs, f)
       IN Returns(Ret(vs, IPAddress, r.err, <<>>),
                  Completed("GetState", r.err, r.st, NoIP, <<>>, <<>>))
    /\ Logged(GetStateSessions(f))

DoGetIP(f, first) ==
    /\ pc = "idle"
    /\ LET r == GetIP(vs, f, first)
       IN Returns(Ret(vs, IPAddress, r.err, r.calls),
                  Completed("GetIP", r.err, GetState(vs, Sub(f, "GetState")).st,
                            r.ip, <<>>, r.calls))
    /\ Logged(GetIPSessions(vs, f))

DoGetURL(f, first) ==
    /\ pc = "idle"
    /\ LET r == GetURL(vs, f, first)
       IN Returns(Ret(vs, IPAddress, r.err, <<>>),
                  Completed("GetURL", r.err, GetState(vs, Sub(f, "GetState")).st,
                            NoIP, r.url, <<>>))
    /\ Logged(GetIPSessions(vs, f))

DoStart(f, net, first) ==
    /\ pc = "idle"
    /\ LET r == Start(vs, IPAddress, f, net, first)
       IN Returns(r, Completed("Start", r.err, GetState(vs, Sub(f, "GetState")).st,
                               NoIP, <<>>, r.calls))
    /\ Logged(StartSessions(vs, f))

DoStop(f) ==
    /\ pc = "idle"
    /\ LET r == Stop(vs, IPAddress, f)
       IN Returns(r, Completed("Stop", r.err, "", NoIP, <<>>, r.calls))
    /\ Logged(StopSessions(f))

\* Kill that clears the address of every instance, as if the instances
\* shared one BaseDriver.
DoKillSharedBase(f) ==
    /\ pc = "idle"
    /\ LET r == Kill(vs, IPAddress, f)
       IN /\ vs' = r.vs
          /\ IPAddress' = r.IPAddress
          /\ other' = [other EXCEPT !.IPAddress = r.IPAddress]
          /\ last' = Completed("Kill", r.err, "", NoIP, <<>>, r.calls)
    /\ Logged(KillSessions(f))
    /\ UNCHANGED <<pc, i, slept, rs, deadline, cfg, prov, disp>>

DoKill(f) ==
    /\ pc = "idle"
    /\ LET r == Kill(vs, IPAddress, f)
       IN Returns(r, Completed("Kill", r.err, "", NoIP, <<>>, r.calls))
    /\ Logged(KillSessions(f))

DoRemove(f) ==
    /\ pc = "idle"
    /\ LET r == Remove(vs, IPAddress, f)
       IN Returns(r, Completed("Remove", r.err, GetState(vs, Sub(f.abort, "GetState")).st,
                               NoIP, <<>>, r.calls))
    /\ Logged(RemoveSessions(vs, IPAddress, f))

\* Callers create a host once: Create runs where no VM object exists.
DoCreate(f, net, first) ==
    /\ pc = "idle"
    /\ ~vs.vm
    /\ LET r == Create(vs, IPAddress, f, net, first)
       IN Returns(r, Completed("Create", r.err, "", NoIP, <<>>, r.calls))
    /\ Logged(CreateSessions(vs, f))

----------------------------------------------------------------------------
(* Restart, step by step *)

\* Restart returns to the caller; what it did stays on record.
RestartReturns(b, ip, err, did) ==
    /\ vs' = b
    /\ IPAddress' = ip
    /\ last' = Completed("Restart", err, "", NoIP, <<>>, <<>>)
    /\ rs' = did
    /\ pc' = "idle"
    /\ i' = 0
    /\ slept' = FALSE
    /\ deadline' = FALSE
    /\ UNCHANGED outside

\* Restart goes on at `at`.
RestartGoes(b, ip, did, at, n, sl) ==
    /\ vs' = b
    /\ IPAddress' = ip
    /\ rs' = did
    /\ pc' = at
    /\ i' = n
    /\ slept' = sl
    /\ last' = NoOp
    /\ UNCHANGED <<deadline, outside>>

\* if err := d.Stop(); err != nil { return err }, then the loop starts.
RestartStop(f) ==
    /\ pc = "idle"
    /\ LET r == Stop(vs, IPAddress, f)
           did == [RsInit EXCEPT !.calls = <<"Stop">>]
       IN IF r.err # Nil
          THEN RestartReturns(r.vs, r.IPAddress, r.err, did)
          ELSE RestartGoes(r.vs, r.IPAddress, did, "poll", 1, FALSE)
    /\ Logged(StopSessions(f))

\* The loop's next iteration, or the end of the loop once i is over the
\* budget.
LoopNext(did, n, sl) ==
    IF n + 1 > PollBudget
    THEN RestartGoes(vs, IPAddress, [did EXCEPT !.exhausted = TRUE], "afterLoop", 0, FALSE)
    ELSE RestartGoes(vs, IPAddress, did, "poll", n + 1, sl)

\* One iteration of the loop: query the state; return on an error; sleep
\* and go on for Running; leave the loop for Stopped; for any other state
\* go on at once.
RestartPoll(f) ==
    /\ pc = "poll"
    /\ LET gs == GetState(vs, f)
           did == [rs EXCEPT !.firstPoll = IF i = 1 THEN gs.st ELSE @,
                             !.allRunning = @ /\ gs.st = Running,
                             !.odd = @ \/ gs.st = None]
       IN IF gs.err # Nil THEN RestartReturns(vs, IPAddress, gs.err, did)
          ELSE IF gs.st = Running THEN LoopNext(did, i, TRUE)
          ELSE IF gs.st = Stopped
          THEN RestartGoes(vs, IPAddress, did, "afterLoop", 0, FALSE)
          ELSE LoopNext(did, i, FALSE)
    /\ Logged(GetStateSessions(f))

\* The step after the loop that Kills whatever is not Stopped.
AfterLoopKillsUnlessStopped(f, fk) ==
    /\ pc = "afterLoop"
    /\ LET gs == GetState(vs, f)
           did == [rs EXCEPT !.post = gs.st, !.odd = @ \/ gs.st = None]
       IN IF gs.st # Stopped
          THEN LET k == Kill(vs, IPAddress, fk)
                   killed == [did EXCEPT !.calls = Append(@, "Kill")]
               IN IF k.err # Nil
                  THEN RestartReturns(k.vs, k.IPAddress, ErrCantStop, killed)
                  ELSE RestartGoes(k.vs, k.IPAddress, killed, "start", 0, FALSE)
          ELSE RestartGoes(vs, IPAddress, did, "start", 0, FALSE)
    /\ Logged(GetStateSessions(f) \o (IF GetState(vs, f).st # Stopped THEN KillSessions(fk) ELSE <<>>))

\* The step after the loop that goes on to Start although Kill failed.
AfterLoopIgnoresKillError(f, fk) ==
    /\ pc = "afterLoop"
    /\ LET gs == GetState(vs, f)
           did == [rs EXCEPT !.post = gs.st, !.odd = @ \/ gs.st = None]
       IN IF gs.st = Running
          THEN LET k == Kill(vs, IPAddress, fk)
               IN RestartGoes(k.vs, k.IPAddress,
                              [did EXCEPT !.calls = Append(@, "Kill")], "start", 0, FALSE)
          ELSE RestartGoes(vs, IPAddress, did, "start", 0, FALSE)
    /\ Logged(GetStateSessions(f) \o (IF GetState(vs, f).st = Running THEN KillSessions(fk) ELSE <<>>))

\* After the loop: query the state once more (the error is not looked at)
\* and Kill a machine that is still Running.
RestartAfterLoop(f, fk) ==
    /\ pc = "afterLoop"
    /\ LET gs == GetState(vs, f)
           did == [rs EXCEPT !.post = gs.st, !.odd = @ \/ gs.st = None]
       IN IF gs.st = Running
          THEN LET k == Kill(vs, IPAddress, fk)
                   killed == [did EXCEPT !.calls = Append(@, "Kill")]
               IN IF k.err # Nil
                  THEN RestartReturns(k.vs, k.IPAddress, ErrCantStop, killed)
                  ELSE RestartGoes(k.vs, k.IPAddress, killed, "start", 0, FALSE)
          ELSE RestartGoes(vs, IPAddress, did, "start", 0, FALSE)
    /\ Logged(GetStateSessions(f) \o (IF GetState(vs, f).st = Running THEN KillSessions(fk) ELSE <<>>))

\* return d.Start()
RestartStart(f, net, first) ==
    /\ pc = "start"
    /\ LET r == Start(vs, IPAddress, f, net, first)
       IN RestartReturns(r.vs, r.IPAddress, r.err,
                         [rs EXCEPT !.calls = Append(@, "Start")])
    /\ Logged(StartSessions(vs, f))

RestartStep ==
    \/ \E f \in GetStateFaults : RestartPoll(f)
    \/ \E f \in GetStateFaults, fk \in KillFaults : RestartAfterLoop(f, fk)
    \/ \E f \in StartFaults, net \in BootNets(vs) :
          \E first \in Firsts(net) : RestartStart(f, net, first)

----------------------------------------------------------------------------
(* The backend and the caller *)

\* The guest asked to shut down powers off.
GuestPowersOff ==
    /\ vs.vm /\ vs.power = "poweredOn" /\ vs.shutdown
    /\ vs' = [vs EXCEPT !.power = "poweredOff", !.shutdown = FALSE, !.net = EmptyNet]
    /\ UNCHANGED <<IPAddress, pc, i, slept, rs, deadline, last, outside, sessions>>

\* The VM is suspended at the backend: a power state that is neither
\* poweredOn nor poweredOff.
BackendSuspends ==
    /\ vs.vm /\ vs.power = "poweredOn"
    /\ vs' = [vs EXCEPT !.power = "suspended", !.shutdown = FALSE, !.net = EmptyNet]
    /\ UNCHANGED <<IPAddress, pc, i, slept, rs, deadline, last, outside, sessions>>

\* A backend call of the operation in progress (of a Restart under way, or
\* of an operation just called) never returns.  Every call is made under a
\* context derived from context.Background(), which nothing cancels before
\* the call returns.  The sessions the operation has open at that call stay
\* open.
BackendHangs ==
    /\ pc # "hung"
    /\ pc' = "hung"
    /\ i' = 0
    /\ slept' = FALSE
    /\ rs' = RsInit
    /\ last' = NoOp
    /\ \E n \in 0..MostOpen : sessions' = sessions + n
    /\ UNCHANGED <<vs, IPAddress, deadline, outside>>

\* The caller's overall deadline expires while the operation is blocked in
\* a backend call.  The driver's operations take no context or deadline
\* from the caller, so nothing in the driver sees it.
CallerDeadlineExpires ==
    /\ pc = "hung"
    /\ ~deadline
    /\ deadline' = TRUE
    /\ UNCHANGED <<vs, IPAddress, pc, i, slept, rs, last, outside, sessions>>

Next ==
    \/ \E f \in GetStateFaults : DoGetState(f)
    \/ \E f \in GetIPFaults, first \in Firsts(vs.net) : DoGetIP(f, first)
    \/ \E f \in GetIPFaults, first \in Firsts(vs.net) : DoGetURL(f, first)
    \/ \E f \in StartFaults, net \in BootNets(vs) :
          \E first \in Firsts(net) : DoStart(f, net, first)
    \/ \E f \in StopFaults : DoStop(f)
    \/ \E f \in KillFaults : DoKill(f)
    \/ \E f \in RemoveFaults : DoRemove(f)
    \/ \E f \in CreateFaults, net \in BootConfigs :
          \E first \in Firsts(net) : DoCreate(f, net, first)
    \/ \E f \in StopFaults : RestartStop(f)
    \/ RestartStep
    \/ GuestPowersOff
    \/ BackendSuspends
    \/ BackendHangs
    \/ CallerDeadlineExpires

Spec == Init /\ [][Next]_vars

NoFault == <<>>
NoRemoveFault == [abort |-> <<>>, wait |-> FALSE]
NoCreateFault == [abort |-> <<>>, addDevice |-> FALSE]

\* A Restart under way takes its next step; the caller's clock runs.
FairSpec == Spec /\ WF_vars(RestartStep) /\ WF_vars(CallerDeadlineExpires)

----------------------------------------------------------------------------
(* Address selection on its own: hosts that Create has just made, with every *)
(* network a guest can report within the bound, and the address queries.     *)

IPInit ==
    \E net \in NetConfigs :
       \E first \in Firsts(net) :
          LET none == [vm |-> FALSE, iso |-> FALSE, devices |-> FALSE,
                       power |-> "poweredOff", shutdown |-> FALSE, net |-> EmptyNet]
              r == Create(none, NoIP, NoCreateFault, net, first)
          IN /\ vs = r.vs
             /\ IPAddress = r.IPAddress
             /\ pc = "idle"
             /\ i = 0
             /\ slept = FALSE
             /\ rs = RsInit
             /\ deadline = FALSE
             /\ last = Completed("Create", r.err, "", NoIP, <<>>, r.calls)
             /\ cfg = NewConfig
             /\ prov = NoProvisioner
             /\ disp = NoDispatch
             /\ other = OtherDriver
             /\ sessions = 0

IPNext ==
    \/ \E f \in GetIPFaults, first \in Firsts(vs.net) : DoGetIP(f, first)
    \/ \E f \in GetIPFaults, first \in Firsts(vs.net) : DoGetURL(f, first)

IPSpec == IPInit /\ [][IPNext]_vars

----------------------------------------------------------------------------
(* PreCreateCheck on its own: drivers configured in every way within the     *)
(* bound, before any host is created.                                        *)

DoPreCreateCheck(in) ==
    /\ pc = "idle"
    /\ LET r == PreCreateCheck(cfg, in)
       IN /\ cfg' = r.cfg
          /\ last' = Completed("PreCreateCheck", r.err, "", NoIP, <<>>, <<>>)
    /\ Logged(PreCreateCheckSessions(in))
    /\ UNCHANGED <<vs, IPAddress, pc, i, slept, rs, deadline, prov, disp, other>>

PreInit ==
    /\ vs = [vm |-> FALSE, iso |-> FALSE, devices |-> FALSE, power |-> "poweredOff",
             shutdown |-> FALSE, net |-> EmptyNet]
    /\ IPAddress = NoIP
    /\ pc = "idle"
    /\ i = 0
    /\ slept = FALSE
    /\ rs = RsInit
    /\ deadline = FALSE
    /\ last = NoOp
    /\ cfg \in Configs
    /\ prov = NoProvisioner
    /\ disp = NoDispatch
    /\ other = OtherDriver
    /\ sessions = 0

PreNext == \E in \in PreCreateInputs : DoPreCreateCheck(in)

PreSpec == PreInit /\ [][PreNext]_vars

----------------------------------------------------------------------------
(* Provision, step by step: every step is a remote command (or several)     *)
(* that takes time and can fail.                                             *)

\* Provision is called: it records its options and goes to its first step.
ProvisionCalled(swarmOptions, authOptions, engineOptions) ==
    /\ prov.pc \in {"new", "returned"}
    /\ prov.runs < MaxRuns
    /\ prov' = [prov EXCEPT !.SwarmOptions = swarmOptions,
                            !.AuthOptions = authOptions,
                            !.EngineOptions = RecordedEngineOptions(prov.kind, engineOptions),
                            !.swarmOptions = swarmOptions,
                            !.engineOptions = engineOptions,
                            !.pc = "next", !.runs = @ + 1, !.started = <<>>,
                            !.done = <<>>, !.err = Nil, !.written = <<>>]
    /\ UNCHANGED <<vs, IPAddress, pc, i, slept, rs, deadline, last, cfg, disp, other, sessions>>

\* The next statement of Provision starts its step.
StepBegins ==
    /\ prov.pc = "next"
    /\ prov' = [prov EXCEPT !.pc = "running",
                            !.started = Append(@, Steps(prov.kind)[Len(prov.done) + 1])]
    /\ UNCHANGED <<vs, IPAddress, pc, i, slept, rs, deadline, last, cfg, disp, other, sessions>>

\* A step that fails is tried again.
StepEndsRetries(ok) ==
    /\ prov.pc = "running"
    /\ LET step == prov.started[Len(prov.started)]
       IN IF ok \/ ~Fallible(step)
          THEN LET p == StepEffect([prov EXCEPT !.done = Append(@, step)], step)
               IN prov' = [p EXCEPT !.pc = IF Len(p.done) = Len(Steps(p.kind))
                                              THEN "returned" ELSE "next"]
          ELSE prov' = [prov EXCEPT !.pc = IF Len(prov.started) < Len(Steps(prov.kind))
                                              THEN "next" ELSE "returned",
                                    !.err = StepError[step]]
    /\ UNCHANGED <<vs, IPAddress, pc, i, slept, rs, deadline, last, cfg, disp, other, sessions>>

\* The step under way ends: on an error Provision returns it; after the
\* last step Provision returns nil; otherwise the next statement follows.
StepEnds(ok) ==
    /\ prov.pc = "running"
    /\ LET step == prov.started[Len(prov.started)]
       IN IF ok \/ ~Fallible(step)
          THEN LET p == StepEffect([prov EXCEPT !.done = Append(@, step)], step)
               IN prov' = [p EXCEPT !.pc = IF Len(p.done) = Len(Steps(p.kind))
                                              THEN "returned" ELSE "next"]
          ELSE prov' = [prov EXCEPT !.pc = "returned", !.err = StepError[step]]
    /\ UNCHANGED <<vs, IPAddress, pc, i, slept, rs, deadline, last, cfg, disp, other, sessions>>

\* Package is called on the COS provisioner, at any point between the steps.
DoPackage(name, action) ==
    /\ prov.kind = "cos"
    /\ prov.pc \in {"new", "next", "returned"}
    /\ LET r == COSPackage(prov, name, action)
       IN /\ prov' = r.prov
          /\ last' = Completed("Package", r.err, "", NoIP, <<>>, r.cmds)
    /\ UNCHANGED <<vs, IPAddress, pc, i, slept, rs, deadline, cfg, disp, other, sessions>>

ProvInit ==
    /\ vs = [vm |-> FALSE, iso |-> FALSE, devices |-> FALSE, power |-> "poweredOff",
             shutdown |-> FALSE, net |-> EmptyNet]
    /\ IPAddress = NoIP
    /\ pc = "idle"
    /\ i = 0
    /\ slept = FALSE
    /\ rs = RsInit
    /\ deadline = FALSE
    /\ last = NoOp
    /\ cfg = NewConfig
    /\ \E kind \in Kinds, name \in MachineNames :
          prov = IF kind = "cos" THEN NewCOSProvisioner(name)
                 ELSE NewOtherProvisioner(kind, name)
    /\ disp = NoDispatch
    /\ other = OtherDriver
    /\ sessions = 0

ProvNext ==
    \/ \E sw \in SwarmOptionsSet, au \in AuthOptionsSet, en \in EngineOptionsSet :
          ProvisionCalled(sw, au, en)
    \/ StepBegins
    \/ \E ok \in BOOLEAN : StepEnds(ok)
    \/ \E name \in PackageNames, action \in PackageActions : DoPackage(name, action)

ProvSpec == ProvInit /\ [][ProvNext]_vars

----------------------------------------------------------------------------
(* The lifecycle dispatcher: a command hands its action and the hosts named *)
(* to runAction, which attempts the action on every host and returns the    *)
(* aggregate of the failures.                                                *)

HostNames == {"alpha", "beta", "gamma"}

\* The sets of hosts a command line can name.
HostSets == {H \in SUBSET HostNames : H # {} /\ Cardinality(H) <= MaxHosts}

\* What an action can return on one host.
Outcomes(action) ==
    IF action = "kill" THEN {Nil, ErrBackend, ErrInvalidPowerState}
    ELSE {Nil, StepError["SetHostname"], StepError["iptables"]}

EmptyAggregate == [h \in {} |-> Nil]

\* runAction is entered: nothing attempted yet.  `will` is what the action
\* returns on each host when it is attempted there.
RunAction(action, hosts, will) ==
    [pc |-> "running", action |-> action, hosts |-> hosts, will |-> will,
     results |-> [h \in {} |-> Nil], aggregate |-> EmptyAggregate]

\* The aggregate of the results: the failing hosts, each with its error.
Aggregate(results) ==
    [h \in {x \in DOMAIN results : results[x] # Nil} |-> results[h]]

\* cmdKill: runAction("kill", ...).
CmdKill(hosts, will) ==
    /\ disp.pc \in {"none", "returned"}
    /\ disp' = RunAction("kill", hosts, will)
    /\ UNCHANGED <<vs, IPAddress, pc, i, slept, rs, deadline, last, cfg, prov, other, sessions>>

\* cmdProvision: runAction("provision", ...).
CmdProvision(hosts, will) ==
    /\ disp.pc \in {"none", "returned"}
    /\ disp' = RunAction("provision", hosts, will)
    /\ UNCHANGED <<vs, IPAddress, pc, i, slept, rs, deadline, last, cfg, prov, other, sessions>>

\* A dispatcher that gives up on the remaining hosts after a failure.
HostAttemptedUnlessFailed(h) ==
    /\ disp.pc = "running"
    /\ h \in disp.hosts \ DOMAIN disp.results
    /\ disp' = [disp EXCEPT
                   !.results = [x \in DOMAIN @ \cup {h} |->
                                   IF x = h THEN disp.will[h] ELSE @[x]],
                   !.hosts = IF disp.will[h] # Nil THEN DOMAIN disp.results \cup {h} ELSE @]
    /\ UNCHANGED <<vs, IPAddress, pc, i, slept, rs, deadline, last, cfg, prov, other, sessions>>

\* The action is attempted on a host not attempted yet, in any order, and
\* its result is collected.
HostAttempted(h) ==
    /\ disp.pc = "running"
    /\ h \in disp.hosts \ DOMAIN disp.results
    /\ disp' = [disp EXCEPT
                   !.results = [x \in DOMAIN @ \cup {h} |->
                                   IF x = h THEN disp.will[h] ELSE @[x]]]
    /\ UNCHANGED <<vs, IPAddress, pc, i, slept, rs, deadline, last, cfg, prov, other, sessions>>

\* Every host has been attempted: runAction returns the aggregate.
RunActionReturns ==
    /\ disp.pc = "running"
    /\ DOMAIN disp.results = disp.hosts
    /\ disp' = [disp EXCEPT !.pc = "returned", !.aggregate = Aggregate(disp.results)]
    /\ UNCHANGED <<vs, IPAddress, pc, i, slept, rs, deadline, last, cfg, prov, other, sessions>>

DispNext ==
    \/ \E hosts \in HostSets : \E will \in [hosts -> Outcomes("kill")] : CmdKill(hosts, will)
    \/ \E hosts \in HostSets : \E will \in [hosts -> Outcomes("provision")] :
          CmdProvision(hosts, will)
    \/ \E h \in HostNames : HostAttempted(h)
    \/ RunActionReturns

\* The dispatcher starts where the driver does: nothing has run.
DispSpec == Init /\ [][DispNext]_vars

----------------------------------------------------------------------------
(* Two hosts.  The variables vs .. last are the Driver instance the caller  *)
(* is operating and what the backend holds under its MachineName; `other`   *)
(* is the second instance.  The caller turns from one to the other at any   *)
(* point, also in the middle of a Restart, so that the operations of the    *)
(* two interleave in every way.                                              *)

\* The caller turns to the other instance.
SwitchHost ==
    /\ vs' = other.vs
    /\ IPAddress' = other.IPAddress
    /\ pc' = other.pc
    /\ i' = other.i
    /\ slept' = other.slept
    /\ rs' = other.rs
    /\ deadline' = other.deadline
    /\ last' = other.last
    /\ other' = [MachineName |-> IF other.MachineName = "beta" THEN "alpha" ELSE "beta",
                 vs |-> vs, IPAddress |-> IPAddress, pc |-> pc, i |-> i,
                 slept |-> slept, rs |-> rs, deadline |-> deadline, last |-> last]
    /\ UNCHANGED <<cfg, prov, disp, sessions>>

\* The network the guests of the two hosts bring up.
TwoNet == [m \in {"00:50:56:00:00:01"} |-> <<IPv4(10, 0, 0, 5)>>]

TwoNext ==
    \/ DoGetState(NoFault)
    \/ \E first \in Firsts(vs.net) : DoGetIP(NoFault, first)
    \/ \E first \in Firsts(TwoNet) : DoStart(NoFault, TwoNet, first)
    \/ DoStop(NoFault)
    \/ \E f \in {NoFault, <<"PowerOff">>} : DoKill(f)
    \/ DoRemove(NoRemoveFault)
    \/ \E first \in Firsts(TwoNet) : DoCreate(NoCreateFault, TwoNet, first)
    \/ RestartStop(NoFault)
    \/ RestartPoll(NoFault)
    \/ RestartAfterLoop(NoFault, NoFault)
    \/ \E first \in Firsts(TwoNet) : RestartStart(NoFault, TwoNet, first)
    \/ GuestPowersOff
    \/ SwitchHost

TwoSpec == Init /\ [][TwoNext]_vars

----------------------------------------------------------------------------
(* Properties *)

Returned(op) == pc = "idle" /\ last.op = op

\* C1: Start on a host whose state query answers Running returns nil, sends
\* no request (no power-on, no create) and leaves the backend and the
\* driver's cached address as they are.  It is stated of Start wherever it
\* is invoked: by the caller, by Restart and by Create.
C1_StartRunningIsNoOp ==
    \A f \in StartFaults, net \in BootConfigs, first \in Macs :
        GetState(vs, Sub(f, "GetState")) = [st |-> Running, err |-> Nil]
            => Start(vs, IPAddress, f, net, first) = Ret(vs, IPAddress, Nil, <<>>)

\* A Start has returned nil for a Running host whose address is cached.
C1_Witness ==
    /\ Returned("Start") /\ last.st = Running /\ last.err = Nil
    /\ vs.power = "poweredOn" /\ IPAddress # NoIP

\* C2: a Restart whose Stop succeeded (the host was powered on) and whose
\* first poll answered Stopped never invokes Kill, and when it returns it
\* has invoked Stop and then Start, and nothing else.
C2_GracefulRestartNoKill ==
    rs.firstPoll = Stopped =>
        /\ \A k \in 1..Len(rs.calls) : rs.calls[k] # "Kill"
        /\ pc \in {"afterLoop", "start", "idle"}
        /\ pc = "idle" => Returned("Restart") /\ rs.calls = <<"Stop", "Start">>

\* A Restart whose first poll answered Stopped has returned nil with the
\* host powered on again.
C2_Witness ==
    /\ Returned("Restart") /\ rs.firstPoll = Stopped /\ last.err = Nil
    /\ vs.power = "poweredOn"

\* The backend answered Running to every poll of the loop's whole budget and
\* to the query after the loop.
StayedRunning == rs.allRunning /\ rs.exhausted /\ rs.post = Running

\* C3 as claimed: a Restart that saw Running through the whole budget and
\* has returned has invoked one Kill and then one Start.
C3_Claimed_KillThenStart ==
    Returned("Restart") /\ StayedRunning => rs.calls = <<"Stop", "Kill", "Start">>

\* C3 as amended: a Restart that saw Running through the whole budget invokes
\* exactly one Kill; Start is invoked only after that Kill has returned nil
\* (the machine is powered off), and then exactly once; when Kill fails,
\* Restart returns "can't stop VM" and invokes no Start.
C3_KillThenStartUnlessKillFails ==
    StayedRunning =>
        /\ pc = "start" => rs.calls = <<"Stop", "Kill">> /\ vs.power = "poweredOff"
        /\ pc = "idle" =>
              /\ Returned("Restart")
              /\ \/ rs.calls = <<"Stop", "Kill", "Start">>
                 \/ rs.calls = <<"Stop", "Kill">> /\ last.err = ErrCantStop
        /\ pc \in {"start", "idle"}

\* A Restart that saw Running through the whole budget has killed and
\* started the machine.
C3_Witness ==
    /\ Returned("Restart") /\ StayedRunning /\ last.err = Nil
    /\ rs.calls = <<"Stop", "Kill", "Start">> /\ vs.power = "poweredOn"

\* C4: once a query of Restart has answered an error or a state that is
\* neither Running nor Stopped, Restart has returned an error, having made
\* no further poll and invoked neither Kill nor Start.
C4_RestartAbortsOnError ==
    rs.odd => Returned("Restart") /\ last.err # Nil /\ rs.calls = <<"Stop">>

\* C5: the loop makes at most PollBudget queries, and every query after the
\* first one comes after a sleep, whatever the previous query answered.
C5_PollsBoundedAndPaced ==
    pc = "poll" => i <= PollBudget /\ (i > 1 => slept)

\* C6: once the caller's deadline has expired, the operation in progress
\* returns, also when a backend call hangs.
C6_DeadlineCancels == deadline ~> (pc = "idle")

\* C7: a GetIP whose state query answered anything but Running returns the
\* host-is-not-running error and no address, without asking the backend for
\* the guest's addresses.
C7_GetIPNotRunning ==
    Returned("GetIP") /\ last.st # Running =>
        last.err = ErrHostIsNotRunning /\ last.ip = NoIP /\ last.calls = <<>>

\* A GetIP on a suspended machine (state None) was turned away.
C7_Witness ==
    /\ Returned("GetIP") /\ last.st = None /\ vs.vm /\ vs.power = "suspended"
    /\ last.err = ErrHostIsNotRunning

\* Every address the guest reports, over all its interfaces.
Reported(net) == UNION {{net[m][k] : k \in 1..Len(net[m])} : m \in DOMAIN net}

\* C8: the address GetIP returns qualifies (global-unicast IPv4, not the
\* docker0 bridge) whenever some reported address does, and it is the same
\* whichever interface the enumeration yields first.
C8_AddressSelection ==
    Returned("GetIP") /\ last.err = Nil =>
        /\ (\E a \in Reported(vs.net) : Qualifies(a)) => Qualifies(last.ip)
        /\ \A m \in DOMAIN vs.net : SelectIP(vs.net, m) = last.ip

\* A Remove has returned nil and neither the VM object nor the ISO is left.
HostDeleted == Returned("Remove") /\ last.err = Nil /\ ~vs.vm /\ ~vs.iso

\* C9: Remove on a host whose VM object and boot ISO are already deleted
\* returns nil (no backend call failing for another reason).
C9_RemoveToleratesDeleted ==
    HostDeleted => Remove(vs, IPAddress, NoRemoveFault).err = Nil

\* C10: when Remove has returned nil, neither the boot ISO nor the VM object
\* is left at the backend.
C10_RemoveLeavesNothing ==
    Returned("Remove") /\ last.err = Nil => ~vs.iso /\ ~vs.vm

\* C11: an operation in which a backend call fails returns an error.
\* GetState, Stop and Kill make every call up to the failing one; Start makes
\* its state query always; in a Remove or Create with no aborting failure
\* the ISO deletion task and the device add are reached.
C11_BackendErrorsSurface ==
    /\ \A f \in GetStateFaults \ {NoFault} : GetState(vs, f).err # Nil
    /\ \A f \in StopFaults \ {NoFault} : Stop(vs, IPAddress, f).err # Nil
    /\ \A f \in KillFaults \ {NoFault} : Kill(vs, IPAddress, f).err # Nil
    /\ \A f \in Under("GetState", GetStateFaults), first \in Macs :
          /\ GetIP(vs, f, first).err # Nil
          /\ Start(vs, IPAddress, f, EmptyNet, first).err # Nil
    /\ \A f \in RemoveFaults :
          f.abort = NoFault /\ f.wait => Remove(vs, IPAddress, f).err # Nil
    /\ ~vs.vm =>
          \A f \in CreateFaults, net \in BootConfigs, first \in Macs :
              f.abort = NoFault /\ f.addDevice
                  => Create(vs, IPAddress, f, net, first).err # Nil

\* C12: a PreCreateCheck that returns an error leaves every configuration
\* field of the driver as it was (it sends lookups only, so the backend is
\* as it was in any case).
C12_PreCreateCheckNoSideEffects ==
    \A in \in PreCreateInputs :
        LET r == PreCreateCheck(cfg, in)
        IN r.err # Nil => r.cfg = cfg

\* C13: a Create that returns nil leaves a machine the backend reports as
\* Running; stated of every Create the driver can be asked for (no VM object
\* of the name exists), whatever fails in it and whatever the guest brings up.
C13_CreateSuccessMeansRunning ==
    ~vs.vm =>
        \A f \in CreateFaults, net \in BootConfigs, first \in Macs :
            LET r == Create(vs, IPAddress, f, net, first)
            IN r.err = Nil => GetState(r.vs, NoFault) = [st |-> Running, err |-> Nil]

\* A Create has returned nil and the machine is powered on.
C13_Witness ==
    /\ Returned("Create") /\ last.err = Nil
    /\ vs.vm /\ vs.power = "poweredOn" /\ IPAddress # NoIP

\* C14: with no backend call failing, GetURL on an existing host returns
\* tcp://<ip>:2376 for an address the running guest reports, and the empty
\* string with no error when no address is assigned, also when the host is
\* not running.
C14_GetURLEmptyNotError ==
    vs.vm =>
        \A first \in Firsts(vs.net) :
            LET r == GetURL(vs, NoFault, first)
            IN IF vs.power = "poweredOn" /\ Reported(vs.net) # {}
               THEN /\ r.err = Nil /\ r.url # <<>>
                    /\ r.url[1] \in Reported(vs.net) /\ r.url[2] = EnginePort
               ELSE r = [url |-> <<>>, err |-> Nil]

\* C15: the state GetState answers is decided by the power state the backend
\* reports to this very call (it reports one when the VM exists and no call
\* fails), whatever the driver holds: Running exactly for poweredOn, Stopped
\* exactly for poweredOff, None otherwise, and no other state.
C15_GetStateAuthoritative ==
    \A f \in GetStateFaults :
        LET r == GetState(vs, f)
            reported == IF vs.vm /\ f = NoFault THEN vs.power ELSE ""
        IN /\ r.st \in {Running, Stopped, None}
           /\ r.st = Running <=> reported = "poweredOn"
           /\ r.st = Stopped <=> reported = "poweredOff"

\* GetState has answered None, with no error, for a suspended machine whose
\* address the driver still holds.
C15_Witness ==
    /\ Returned("GetState") /\ last.st = None /\ last.err = Nil
    /\ vs.vm /\ vs.power = "suspended" /\ IPAddress # NoIP

\* The order the steps are claimed to run in.
ClaimedOrder ==
    <<"SetHostname", "makeDockerOptionsDir", "setRemoteAuthOptions", "ConfigureAuth",
      "configureSwarm", "iptables">>

\* C16: in a Provision of the COS provisioner the steps started so far are
\* the first ones of the claimed order, each once; a step is started only
\* when every step before it has succeeded; the hostname set is the machine
\* name; a Provision that returns nil has done all six.
C16_ProvisionOrder ==
    prov.kind = "cos" /\ prov.pc # "new" =>
        /\ Len(prov.started) <= Len(ClaimedOrder)
        /\ prov.started = SubSeq(ClaimedOrder, 1, Len(prov.started))
        /\ prov.done = SubSeq(prov.started, 1, Len(prov.done))
        /\ Len(prov.started) \in {Len(prov.done), Len(prov.done) + 1}
        /\ Len(prov.done) >= 1 => prov.hostname = prov.MachineName
        /\ prov.pc = "returned" /\ prov.err = Nil => prov.done = ClaimedOrder

\* A second Provision of a COS provisioner has returned nil after all six
\* steps.
C16_Witness ==
    /\ prov.kind = "cos" /\ prov.pc = "returned" /\ prov.err = Nil
    /\ prov.runs = 2 /\ prov.done = ClaimedOrder /\ prov.hostname = prov.MachineName

\* C17: in a Provision of the COS provisioner a step that was started and
\* has not succeeded is either under way or has failed, and when it has
\* failed Provision has returned that step's error, with no step started
\* after it and none started twice.
C17_ProvisionAbortsOnFailure ==
    prov.kind = "cos" /\ prov.pc # "new" =>
        /\ Len(prov.started) > Len(prov.done) =>
              \/ prov.pc = "running" /\ prov.err = Nil
              \/ /\ prov.pc = "returned"
                 /\ Len(prov.started) = Len(prov.done) + 1
                 /\ prov.err = StepError[prov.started[Len(prov.started)]]
                 /\ prov.err # Nil
        /\ Len(prov.started) = Len(prov.done) => prov.err = Nil
        /\ \A j, k \in 1..Len(prov.started) : j # k => prov.started[j] # prov.started[k]

\* A Provision of a COS provisioner has returned the error of ConfigureAuth,
\* having started nothing after it.
C17_Witness ==
    /\ prov.kind = "cos" /\ prov.pc = "returned"
    /\ prov.err = "ConfigureAuth failed"
    /\ prov.started = SubSeq(ClaimedOrder, 1, 4) /\ prov.done = SubSeq(ClaimedOrder, 1, 3)

\* The shapes of the artifacts of a generated daemon configuration.
Shapes(options) == [k \in 1..Len(options) |-> options[k].shape]

\* C18 as claimed: every provisioner built on the systemd provisioner, the
\* COS one included, generates the override fragment and the flag file, any
\* other provisioner one flat file, and a Provision writes what is generated
\* at most once.
C18_Claimed_ShapeByInitSystem ==
    prov.pc # "none" =>
        /\ Shapes(GenerateDockerOptions(prov, EnginePort)) =
               IF OnSystemd(prov.kind) THEN <<"override", "flags">> ELSE <<"flat">>
        /\ Len(prov.written) <= 1
        /\ \A k \in 1..Len(prov.written) :
               prov.written[k] = GenerateDockerOptions(prov, EnginePort)

\* C18 as amended: the COS provisioner, although built on the systemd
\* provisioner, generates one flat file at its DaemonOptionsFile, as a
\* provisioner without systemd does; every other provisioner built on the
\* systemd provisioner generates the override fragment and the flag file;
\* a Provision writes what is generated at most once.
C18_ShapeByProvisioner ==
    prov.pc # "none" =>
        /\ Shapes(GenerateDockerOptions(prov, EnginePort)) =
               IF prov.kind = "cos" \/ ~OnSystemd(prov.kind)
               THEN <<"flat">> ELSE <<"override", "flags">>
        /\ prov.kind = "cos" =>
               GenerateDockerOptions(prov, EnginePort)[1].path = "/etc/default/docker"
        /\ Len(prov.written) <= 1
        /\ \A k \in 1..Len(prov.written) :
               prov.written[k] = GenerateDockerOptions(prov, EnginePort)

\* A Provision of a COS provisioner has written one flat file.
C18_Witness ==
    /\ prov.kind = "cos" /\ prov.pc = "returned" /\ prov.err = Nil
    /\ Len(prov.written) = 1 /\ Shapes(prov.written[1]) = <<"flat">>

Named == DOMAIN disp.will

\* C20: the result collected for a host is what the action returned on that
\* host, whatever it returned on the others; when the dispatcher returns,
\* the action has been attempted on every host named, and the aggregate
\* holds exactly the failing hosts, each with its own error: it is empty
\* exactly when every host succeeded.
C20_DispatcherAggregates ==
    disp.pc \in {"running", "returned"} =>
        /\ \A h \in DOMAIN disp.results : disp.results[h] = disp.will[h]
        /\ disp.pc = "returned" =>
              /\ DOMAIN disp.results = Named
              /\ DOMAIN disp.aggregate = {h \in Named : disp.will[h] # Nil}
              /\ \A h \in DOMAIN disp.aggregate : disp.aggregate[h] = disp.will[h]
              /\ disp.aggregate = EmptyAggregate <=> \A h \in Named : disp.will[h] = Nil

\* A kill of two hosts has returned: alpha succeeded, beta failed, and the
\* aggregate names beta alone.
C20_Witness ==
    /\ disp.pc = "returned" /\ disp.action = "kill"
    /\ Named = {"alpha", "beta"}
    /\ disp.results["alpha"] = Nil /\ disp.results["beta"] = ErrInvalidPowerState
    /\ DOMAIN disp.aggregate = {"beta"}

\* The instance in hand and its VM, as one value.
InHand ==
    [vs |-> vs, IPAddress |-> IPAddress, pc |-> pc, i |-> i, slept |-> slept,
     rs |-> rs, deadline |-> deadline, last |-> last]

\* The second instance and its VM, without the name.
Aside(o) ==
    [vs |-> o.vs, IPAddress |-> o.IPAddress, pc |-> o.pc, i |-> o.i, slept |-> o.slept,
     rs |-> o.rs, deadline |-> o.deadline, last |-> o.last]

\* C21: every step of two interleaved instances either is a step of the
\* instance in hand, which leaves the other instance, its cached address
\* and its VM exactly as they are, or is the caller turning to the other
\* instance, which changes neither: each host goes through the states, and
\* gets the results, of its own operations alone.
C21_HostsIndependent ==
    [][\/ other' = other
       \/ Aside(other') = InHand /\ InHand' = Aside(other)]_vars

\* One host is running with its address cached while the other one is in
\* the middle of a Restart, waiting for its guest to shut down.
C21_Witness ==
    /\ pc = "idle" /\ vs.vm /\ vs.power = "poweredOn" /\ IPAddress # NoIP
    /\ other.pc = "poll" /\ other.i > 1 /\ other.vs.vm /\ other.vs.shutdown
    /\ other.IPAddress = NoIP

\* C22: Package of the COS provisioner, for every package name and every
\* action and wherever the provisioner is, returns nil, issues no remote
\* command and leaves the provisioner as it is.
C22_COSPackageNoOp ==
    prov.kind = "cos" =>
        /\ \A name \in PackageNames, action \in PackageActions :
               COSPackage(prov, name, action) = [prov |-> prov, err |-> Nil, cmds |-> <<>>]
        /\ last.op = "Package" => last.err = Nil /\ last.calls = <<>>

\* Package has been called on a COS provisioner in the middle of a
\* Provision, after two of its steps.
C22_Witness ==
    /\ prov.kind = "cos" /\ last.op = "Package" /\ last.err = Nil
    /\ prov.pc = "next" /\ Len(prov.done) = 2

\* C23: a Start that returns nil leaves a machine the backend reports as
\* Running.  It is stated of Start on an existing host wherever it is
\* invoked, by the caller or as the last statement of Restart, whose result
\* it is.
C23_StartSuccessMeansRunning ==
    vs.vm =>
        \A f \in StartFaults, net \in BootNets(vs) :
            \A first \in Firsts(net) :
                LET r == Start(vs, IPAddress, f, net, first)
                IN r.err = Nil => GetState(r.vs, NoFault) = [st |-> Running, err |-> Nil]

\* The deletion requests among the requests an operation sent.
Deletions(calls) ==
    {k \in 1..Len(calls) : calls[k] \in {"DeleteDatastoreFile", "Destroy"}}

\* C24: a Remove whose state query answers Running sends a deletion request
\* only after its Kill has powered the machine off; a Remove whose state
\* query fails (a call of it fails) or whose Kill fails returns an error,
\* sends no deletion request and leaves the backend as it is.
C24_RemoveKillsBeforeDeleting ==
    \A f \in RemoveFaults :
        LET r == Remove(vs, IPAddress, f)
            q == Sub(f.abort, "GetState")
            gs == GetState(vs, q)
            k == Kill(vs, IPAddress, Sub(f.abort, "Kill"))
        IN /\ gs.st = Running /\ Deletions(r.calls) # {} =>
                 /\ r.calls[1] = "PowerOff" /\ k.err = Nil
                 /\ \A d \in Deletions(r.calls) : d > 1
           /\ (q # <<>> \/ gs.err # Nil) \/ (gs.st = Running /\ k.err # Nil) =>
                 r.err # Nil /\ Deletions(r.calls) = {} /\ r.vs = vs

\* C25: the cached address follows the lifecycle.  In every step: a Stop
\* or a Kill that returned nil leaves the address empty and one that
\* returned an error leaves it as it was; GetState, GetIP, GetURL and a
\* Start whose state query did not answer Stopped leave it as it was; and
\* the address becomes a new non-empty value only where the step powered a
\* powered-off machine on (in Start, or in the Start that ends Create or
\* Restart) and the value is an address the guest of that machine reports;
\* that Start returned nil (a Create may still fail in a later step).
C25_CachedIPFollowsLifecycle ==
    [][/\ last'.op \in {"Stop", "Kill"} =>
             IPAddress' = IF last'.err = Nil THEN NoIP ELSE IPAddress
       /\ last'.op \in {"GetState", "GetIP", "GetURL"} => IPAddress' = IPAddress
       /\ last'.op = "Start" /\ last'.st # Stopped => IPAddress' = IPAddress
       /\ IPAddress' # NoIP /\ IPAddress' # IPAddress =>
             /\ last'.op \in {"Start", "Create", "Restart"}
             /\ last'.op # "Create" => last'.err = Nil
             /\ vs.power = "poweredOff" /\ vs'.power = "poweredOn"
             /\ IPAddress' \in Reported(vs'.net)]_vars

\* A Stop failed on a host whose address a Start had cached, and the
\* address is still there.
C25_Witness ==
    /\ last.op = "Stop" /\ last.err # Nil
    /\ IPAddress # NoIP

\* Every Logout of t ends a session a login of t before it opened, no
\* session is left open at the end, and no more than MostOpen are open at
\* one time.
Matched(t) ==
    /\ Open(t) = 0
    /\ \A n \in 0..Len(t) : Open(SubSeq(t, 1, n)) \in 0..MostOpen

\* The logins and Logouts of every operation the caller can invoke now, for
\* every way the operation can go.
SessionsOfOperations ==
    {GetStateSessions(f) : f \in GetStateFaults}
        \cup {GetIPSessions(vs, f) : f \in GetIPFaults}
        \cup {StartSessions(vs, f) : f \in StartFaults}
        \cup {StopSessions(f) : f \in StopFaults}
        \cup {KillSessions(f) : f \in KillFaults}
        \cup {RemoveSessions(vs, IPAddress, f) : f \in RemoveFaults}
        \cup {CreateSessions(vs, f) : f \in CreateFaults}
        \cup {PreCreateCheckSessions(in) : in \in PreCreateInputs}

\* C26: no session is leaked.  Whatever operations have completed, and
\* between the steps of a Restart, no session is open at the backend; and
\* in every operation that can be invoked, however it goes, each login that
\* succeeded is followed by one Logout before the operation returns, the
\* logins of the operations it calls included.
C26_NoSessionLeak ==
    /\ pc # "hung" => sessions = 0
    /\ \A t \in SessionsOfOperations : Matched(t)

\* A Remove of a running host has returned nil: it opened the session of
\* its GetState, that of its Kill and its own, and none is open.
C26_Witness ==
    /\ last.op = "Remove" /\ last.err = Nil /\ last.st = Running
    /\ "PowerOff" \in {last.calls[k] : k \in 1..Len(last.calls)}
    /\ sessions = 0

=============================================================================
